---- MODULE Spec2Model ----
(***************************************************************************)
(* Verification model of the cafe_menu Django project (menu app):          *)
(*   menu/models.py, menu/context_processors.py, menu/views.py,            *)
(*   menu/admin.py.                                                         *)
(* The module holds one state space per concern; every specification       *)
(* below starts the variables of the other concerns at a fixed value and   *)
(* leaves them unchanged.                                                   *)
(***************************************************************************)
EXTENDS Integers, Sequences, FiniteSets, TLC

VARIABLES
    store,          \* SiteSetting table: pk -> row
    cache,          \* django.core.cache: key -> cached object
    nextPk,         \* next primary key the SiteSetting table hands out
    site_settings,  \* context["site_settings"] of the last global_settings call
    lastOp,         \* name of the operation that ran last (sequential runs)
    evicted,        \* what the last cache.delete of a save/delete removed
    pc,             \* per request: position inside its handler
    local,          \* per request: settings_instance local of global_settings
    items,          \* MenuItem table: pk -> row
    outcome,        \* result of the last MenuItem.save / delete call
    categories,     \* MenuCategory rows read by the home page
    menu_items,     \* MenuItem rows read by the home page
    context,        \* HomePageView context (categories, signature_items)
    entity,         \* object translate() is called on: field name -> value
    language,       \* translation.get_language()
    translated,     \* values resolved by translate() and the properties
    languages,      \* settings.LANGUAGES, the configured codes in order
    path_info,      \* request.path_info
    language_urls   \* context["language_urls"]

settingsVars == <<store, cache, nextPk, site_settings, lastOp, evicted>>
requestVars == <<pc, local>>
itemVars == <<items, outcome>>
homeVars == <<categories, menu_items, context>>
translateVars == <<entity, language, translated>>
pathVars == <<languages, path_info, language_urls>>
vars == <<settingsVars, requestVars, itemVars, homeVars, translateVars, pathVars>>

----------------------------------------------------------------------------
(* Bounds of the model *)

MaxPk == 3
NumRequests == 2
MaxPathLen == 5
MaxItems == 2
NumCategories == 2
NumMenuItems == 5

----------------------------------------------------------------------------
(* Python values *)

EmptyMap == [k \in {} |-> 0]

MapRemove(f, k) == [x \in DOMAIN f \ {k} |-> f[x]]

MapPut(f, k, v) == [x \in DOMAIN f \cup {k} |-> IF x = k THEN v ELSE f[x]]

Min(S) == CHOOSE x \in S : \A y \in S : x <= y

----------------------------------------------------------------------------
(* SiteSetting and the settings cache *)

SITE_SETTINGS_CACHE_KEY == "menu.site_settings"

SiteNames == {"Aroma", "Barista"}

\* An in-memory SiteSetting instance; pk 0 stands for pk None (never saved).
Instance(pk, name) == [pk |-> pk, site_name_en |-> name]

\* SiteSetting(site_name_en="Cafe Menu"), the transient placeholder.
Placeholder == Instance(0, "Cafe Menu")

\* SiteSetting.objects.first(): the row of lowest pk; callers test for None
\* with ObjectsExists.
ObjectsExists == DOMAIN store # {}

ObjectsFirst == Instance(Min(DOMAIN store), store[Min(DOMAIN store)])

\* What a read of storage yields for the context: the record, else the
\* placeholder (context_processors.py lines 37-40).
ReadSettings == IF ObjectsExists THEN ObjectsFirst ELSE Placeholder

CacheHit(c, key) == key \in DOMAIN c

CacheSet(c, key, value) == MapPut(c, key, value)

CacheDelete_Noop(c, key) == c

CacheDelete(c, key) == MapRemove(c, key)

\* super().save(): INSERT for an unsaved instance, UPDATE otherwise.
ModelSave(pk, name) ==
    IF pk = 0 THEN MapPut(store, nextPk, name) ELSE MapPut(store, pk, name)

ModelDelete(pk) == MapRemove(store, pk)

\* SiteSettingAdmin.has_add_permission
has_add_permission == IF ObjectsExists THEN FALSE ELSE TRUE

----------------------------------------------------------------------------
(* Strings are sequences of one-character strings, so that strip, split    *)
(* and formatting are computed character by character as Python does.      *)

Str_en == <<"e", "n">>
Str_fa == <<"f", "a">>

\* str.lstrip(chars)
RECURSIVE LStrip(_, _)
LStrip(s, chars) ==
    IF s # <<>> /\ Head(s) \in chars THEN LStrip(Tail(s), chars) ELSE s

\* str.rstrip(chars)
RECURSIVE RStrip(_, _)
RStrip(s, chars) ==
    IF s # <<>> /\ s[Len(s)] \in chars
    THEN RStrip(SubSeq(s, 1, Len(s) - 1), chars)
    ELSE s

Strip_LeftOnly(s, chars) == LStrip(s, chars)

\* str.strip(chars)
Strip(s, chars) == LStrip(RStrip(s, chars), chars)

\* str.find(ch) + 1: position of the first ch, 0 when there is none
RECURSIVE Find(_, _, _)
Find(s, ch, i) ==
    IF i > Len(s) THEN 0 ELSE IF s[i] = ch THEN i ELSE Find(s, ch, i + 1)

\* str.split(ch, 1)
Split1(s, ch) ==
    LET i == Find(s, ch, 1)
    IN  IF i = 0 THEN <<s>>
        ELSE <<SubSeq(s, 1, i - 1), SubSeq(s, i + 1, Len(s))>>

\* _language_paths(request), as a function of request.path_info
_language_paths(path_in) ==
    LET path == IF path_in # <<>> THEN path_in ELSE <<"/">>
        trimmed == LStrip(path, {"/"})
        parts == IF trimmed # <<>> THEN Split1(trimmed, "/") ELSE <<>>
        language_codes == {languages[i] : i \in DOMAIN languages}
        remainder0 == IF parts # <<>> /\ parts[1] \in language_codes
                      THEN (IF Len(parts) > 1 THEN parts[2] ELSE <<>>)
                      ELSE trimmed
        remainder == Strip(remainder0, {"/"})
        suffix == IF remainder # <<>> THEN remainder \o <<"/">> ELSE <<>>
    IN  [code \in language_codes |-> <<"/">> \o code \o <<"/">> \o suffix]

----------------------------------------------------------------------------
(* Sequential operations on SiteSetting: each handler runs to completion. *)

\* SiteSetting.save on a new (pk = 0) or a stored instance.
SiteSettingSave(pk, name) ==
    /\ pk = 0 => nextPk <= MaxPk
    /\ store' = ModelSave(pk, name)
    /\ nextPk' = IF pk = 0 THEN nextPk + 1 ELSE nextPk
    /\ cache' = CacheDelete(cache, SITE_SETTINGS_CACHE_KEY)
    /\ evicted' = cache
    /\ lastOp' = "save"
    /\ UNCHANGED <<site_settings, requestVars, itemVars, homeVars, translateVars, pathVars>>

\* SiteSetting.delete
SiteSettingDelete(pk) ==
    /\ store' = ModelDelete(pk)
    /\ cache' = CacheDelete(cache, SITE_SETTINGS_CACHE_KEY)
    /\ evicted' = cache
    /\ lastOp' = "delete"
    /\ UNCHANGED <<nextPk, site_settings, requestVars, itemVars, homeVars, translateVars, pathVars>>

\* global_settings(request): cache.get, and on a miss the storage read and
\* cache.set; then the language URLs of the request path.
global_settings ==
    LET hit == CacheHit(cache, SITE_SETTINGS_CACHE_KEY)
        settings_instance == IF hit THEN cache[SITE_SETTINGS_CACHE_KEY]
                             ELSE ReadSettings
    IN  /\ cache' = IF hit THEN cache
                    ELSE CacheSet(cache, SITE_SETTINGS_CACHE_KEY, settings_instance)
        /\ site_settings' = settings_instance
        /\ language_urls' = _language_paths(path_info)
        /\ lastOp' = "global_settings"
        /\ UNCHANGED <<store, nextPk, evicted, languages, path_info, requestVars,
                       itemVars, homeVars, translateVars>>

\* The 300 second timeout of the cache entry runs out.
CacheExpire ==
    /\ CacheHit(cache, SITE_SETTINGS_CACHE_KEY)
    /\ cache' = MapRemove(cache, SITE_SETTINGS_CACHE_KEY)
    /\ UNCHANGED <<store, nextPk, site_settings, lastOp, evicted, requestVars, itemVars,
                   homeVars, translateVars, pathVars>>

SettingsStart ==
    /\ store = EmptyMap
    /\ cache = EmptyMap
    /\ nextPk = 1
    /\ site_settings = Placeholder
    /\ lastOp = "init"
    /\ evicted = EmptyMap

RequestsStart ==
    /\ pc = [r \in 1..NumRequests |-> "idle"]
    /\ local = [r \in 1..NumRequests |-> Placeholder]

ItemsStart ==
    /\ items = EmptyMap
    /\ outcome = "none"

HomeStart ==
    /\ categories = EmptyMap
    /\ menu_items = EmptyMap
    /\ context = [rendered |-> FALSE, categories |-> <<>>, signature_items |-> <<>>,
                  language_selected |-> FALSE]

TranslateStart ==
    /\ entity = EmptyMap
    /\ language = <<>>
    /\ translated = EmptyMap

PathStart ==
    /\ languages = <<Str_en, Str_fa>>
    /\ path_info = <<"/">>
    /\ language_urls = EmptyMap

InitSettings ==
    /\ SettingsStart /\ RequestsStart /\ ItemsStart
    /\ HomeStart /\ TranslateStart /\ PathStart

NextSettings ==
    \/ \E pk \in {0} \cup DOMAIN store, name \in SiteNames : SiteSettingSave(pk, name)
    \/ \E pk \in DOMAIN store : SiteSettingDelete(pk)
    \/ global_settings
    \/ CacheExpire

SpecSettings == InitSettings /\ [][NextSettings]_vars

\* C1: in every sequence of SiteSetting saves, deletes and global_settings
\* calls, a global_settings call returns what storage holds at that moment
\* (the first record, or the placeholder when there is none), never an
\* instance cached before an earlier save or delete.
C1_FreshAfterSaveOrDelete ==
    lastOp = "global_settings" => site_settings = ReadSettings

\* A save removed a cached placeholder and the following call returned the
\* stored record.
C1_Witness ==
    /\ lastOp = "global_settings"
    /\ CacheHit(evicted, SITE_SETTINGS_CACHE_KEY)
    /\ evicted[SITE_SETTINGS_CACHE_KEY] = Placeholder
    /\ site_settings.pk # 0
    /\ site_settings = ReadSettings

----------------------------------------------------------------------------
(* Concurrently handled requests: cache.get, the storage read and          *)
(* cache.set of global_settings are separate steps, and so are the         *)
(* storage write and the cache.delete of SiteSetting.save / delete, and    *)
(* the permission check and the save of the admin's add view.              *)

Requests == 1..NumRequests

AllIdle == \A r \in Requests : pc[r] = "idle"

Adding == {r \in Requests : pc[r] = "add"}

\* global_settings, line 35: cache.get
GsCacheGet(r) ==
    /\ pc[r] = "idle"
    /\ IF CacheHit(cache, SITE_SETTINGS_CACHE_KEY)
       THEN /\ site_settings' = cache[SITE_SETTINGS_CACHE_KEY]
            /\ pc' = pc
       ELSE /\ site_settings' = site_settings
            /\ pc' = [pc EXCEPT ![r] = "read"]
    /\ UNCHANGED <<store, cache, nextPk, lastOp, evicted, local, itemVars, homeVars,
                   translateVars, pathVars>>

\* global_settings, lines 37-40: SiteSetting.objects.first() or the placeholder
GsStorageRead(r) ==
    /\ pc[r] = "read"
    /\ local' = [local EXCEPT ![r] = ReadSettings]
    /\ pc' = [pc EXCEPT ![r] = "set"]
    /\ UNCHANGED <<settingsVars, itemVars, homeVars, translateVars, pathVars>>

\* global_settings, line 41: cache.set, then the context is returned
GsCacheSet(r) ==
    /\ pc[r] = "set"
    /\ cache' = CacheSet(cache, SITE_SETTINGS_CACHE_KEY, local[r])
    /\ site_settings' = local[r]
    /\ local' = [local EXCEPT ![r] = Placeholder]
    /\ pc' = [pc EXCEPT ![r] = "idle"]
    /\ UNCHANGED <<store, nextPk, lastOp, evicted, itemVars, homeVars, translateVars,
                   pathVars>>

\* The admin's add view asks has_add_permission before it handles the form.
AdminAddCheck(r) ==
    /\ pc[r] = "idle"
    /\ has_add_permission
    /\ nextPk + Cardinality(Adding) <= MaxPk
    /\ pc' = [pc EXCEPT ![r] = "add"]
    /\ UNCHANGED <<settingsVars, local, itemVars, homeVars, translateVars, pathVars>>

\* SiteSetting.save of the add view, line 96: the INSERT
AdminAddSave(r, name) ==
    /\ pc[r] = "add"
    /\ store' = ModelSave(0, name)
    /\ nextPk' = nextPk + 1
    /\ pc' = [pc EXCEPT ![r] = "invalidate"]
    /\ UNCHANGED <<cache, site_settings, lastOp, evicted, local, itemVars, homeVars,
                   translateVars, pathVars>>

\* SiteSetting.save of the change view, line 96: the UPDATE
AdminChangeSave(r, pk, name) ==
    /\ pc[r] = "idle"
    /\ store' = ModelSave(pk, name)
    /\ pc' = [pc EXCEPT ![r] = "invalidate"]
    /\ UNCHANGED <<cache, nextPk, site_settings, lastOp, evicted, local, itemVars,
                   homeVars, translateVars, pathVars>>

\* SiteSetting.delete, line 100: the DELETE
AdminDelete(r, pk) ==
    /\ pc[r] = "idle"
    /\ store' = ModelDelete(pk)
    /\ pc' = [pc EXCEPT ![r] = "invalidate"]
    /\ UNCHANGED <<cache, nextPk, site_settings, lastOp, evicted, local, itemVars,
                   homeVars, translateVars, pathVars>>

\* SiteSetting.save line 97 / SiteSetting.delete line 101: cache.delete
CacheInvalidate(r) ==
    /\ pc[r] = "invalidate"
    /\ cache' = CacheDelete(cache, SITE_SETTINGS_CACHE_KEY)
    /\ pc' = [pc EXCEPT ![r] = "idle"]
    /\ UNCHANGED <<store, nextPk, site_settings, lastOp, evicted, local, itemVars,
                   homeVars, translateVars, pathVars>>

NextRequests ==
    \/ \E r \in Requests : GsCacheGet(r)
    \/ \E r \in Requests : GsStorageRead(r)
    \/ \E r \in Requests : GsCacheSet(r)
    \/ \E r \in Requests : AdminAddCheck(r)
    \/ \E r \in Requests, name \in SiteNames : AdminAddSave(r, name)
    \/ \E r \in Requests, pk \in DOMAIN store, name \in SiteNames :
            AdminChangeSave(r, pk, name)
    \/ \E r \in Requests, pk \in DOMAIN store : AdminDelete(r, pk)
    \/ \E r \in Requests : CacheInvalidate(r)
    \/ CacheExpire

SpecRequests == InitSettings /\ [][NextRequests]_vars

\* C2: through the admin's add (performed only after has_add_permission
\* reported it available), change and delete, issued by concurrently
\* handled requests, at most one SiteSetting record exists, and
\* has_add_permission reports add as unavailable whenever a record exists.
C2_AtMostOneSiteSetting ==
    /\ Cardinality(DOMAIN store) <= 1
    /\ ObjectsExists => ~has_add_permission

\* C10: once every in-flight request has finished, the cache entry is
\* absent or equal to what storage holds (the record, or the placeholder
\* when storage is empty).
C10_NoStaleEntryWhenQuiescent ==
    AllIdle =>
        \/ ~CacheHit(cache, SITE_SETTINGS_CACHE_KEY)
        \/ cache[SITE_SETTINGS_CACHE_KEY] = ReadSettings

----------------------------------------------------------------------------
(* The language switcher URLs of a request path *)

PathChars == {"/", "e", "n", "f", "a", "m"}

Paths == UNION {[1..n -> PathChars] : n \in 0..MaxPathLen}

LanguageCodes == {languages[i] : i \in DOMAIN languages}

\* configurations of settings.LANGUAGES the URLs are computed under
LanguageSettings ==
    { <<Str_en, Str_fa>>, <<Str_fa>>, <<Str_en, Str_fa, <<"m">> >> }

\* A request for a path: global_settings line 43, language_urls of the path.
LanguagePathsCall ==
    /\ language_urls = EmptyMap
    /\ language_urls' = _language_paths(path_info)
    /\ UNCHANGED <<languages, path_info, settingsVars, requestVars, itemVars,
                   homeVars, translateVars>>

\* The visitor follows the switcher link of one language: the next request
\* carries the produced URL as its path.
FollowLanguageUrl(code) ==
    /\ code \in DOMAIN language_urls
    /\ path_info' = language_urls[code]
    /\ language_urls' = _language_paths(language_urls[code])
    /\ UNCHANGED <<languages, settingsVars, requestVars, itemVars, homeVars, translateVars>>

InitPaths ==
    /\ SettingsStart /\ RequestsStart /\ ItemsStart /\ HomeStart /\ TranslateStart
    /\ languages \in LanguageSettings
    /\ path_info \in Paths
    /\ language_urls = EmptyMap

NextPaths ==
    \/ LanguagePathsCall
    \/ \E code \in DOMAIN language_urls : FollowLanguageUrl(code)

SpecPaths == InitPaths /\ [][NextPaths]_vars

\* The remainder as the specification words it: the path without its leading
\* slashes, without its first segment when that is a language code, without
\* leading and trailing slashes.
LeadingSlashes(s) ==
    CHOOSE k \in 0..Len(s) :
        /\ \A i \in 1..k : s[i] = "/"
        /\ k < Len(s) => s[k + 1] # "/"

TrailingSlashes(s) ==
    CHOOSE k \in 0..Len(s) :
        /\ \A i \in 1..k : s[Len(s) + 1 - i] = "/"
        /\ k < Len(s) => s[Len(s) - k] # "/"

WithoutLeadingSlashes(s) == SubSeq(s, LeadingSlashes(s) + 1, Len(s))

WithoutOuterSlashes(s) ==
    LET t == WithoutLeadingSlashes(s)
    IN  SubSeq(t, 1, Len(t) - TrailingSlashes(t))

FirstSegmentLen(s) ==
    CHOOSE k \in 0..Len(s) :
        /\ \A i \in 1..k : s[i] # "/"
        /\ k < Len(s) => s[k + 1] = "/"

ExpectedRemainder(p) ==
    LET t == WithoutLeadingSlashes(p)
        n == FirstSegmentLen(t)
    IN  IF SubSeq(t, 1, n) \in LanguageCodes
        THEN WithoutOuterSlashes(SubSeq(t, n + 1, Len(t)))
        ELSE WithoutOuterSlashes(t)

ExpectedUrl(code, remainder) ==
    IF remainder = <<>> THEN <<"/">> \o code \o <<"/">>
    ELSE <<"/">> \o code \o <<"/">> \o remainder \o <<"/">>

\* C9: language_urls has exactly one entry per supported language code c,
\* /c/ for an empty remainder and /c/remainder/ otherwise, with the same
\* remainder in every entry, and computing language_urls again for any
\* produced URL yields the same mapping.
C9_LanguageUrls ==
    language_urls # EmptyMap =>
        /\ DOMAIN language_urls = LanguageCodes
        /\ \A c \in LanguageCodes :
               language_urls[c] = ExpectedUrl(c, ExpectedRemainder(path_info))
        /\ \A c \in LanguageCodes :
               _language_paths(language_urls[c]) = language_urls

\* The path /en/m/ was requested: both entries carry the remainder m.
C9_Witness ==
    /\ languages = <<Str_en, Str_fa>>
    /\ path_info = <<"/", "e", "n", "/", "m", "/">>
    /\ language_urls # EmptyMap
    /\ language_urls[Str_fa] = <<"/", "f", "a", "/", "m", "/">>
    /\ language_urls[Str_en] = path_info

----------------------------------------------------------------------------
(* TranslatableFieldsMixin.translate and the SiteSetting properties *)

\* Python None, as returned by getattr(self, name, None) for a missing field
None == "None"

Truthy(v) == v \notin {None, ""}

\* f"{field_prefix}_{lang}": a field name is the pair of its two parts
FieldName(field_prefix, lang) == <<field_prefix, lang>>

GetAttr(self, name, default) ==
    IF name \in DOMAIN self THEN self[name] ELSE default

translate_NoSplit(self, field_prefix) ==
    LET lang == IF language # <<>> THEN language ELSE Str_en
        preferred == GetAttr(self, FieldName(field_prefix, lang), None)
    IN  IF Truthy(preferred) THEN preferred
        ELSE GetAttr(self, FieldName(field_prefix, Str_en), "")

\* TranslatableFieldsMixin.translate; language is translation.get_language(),
\* <<>> when no language is active.
translate(self, field_prefix) ==
    LET lang == Split1(IF language # <<>> THEN language ELSE Str_en, "-")[1]
        preferred_field == FieldName(field_prefix, lang)
        fallback_field == FieldName(field_prefix, Str_en)
        preferred == GetAttr(self, preferred_field, None)
    IN  IF Truthy(preferred) THEN preferred
        ELSE GetAttr(self, fallback_field, "")

\* SiteSetting.site_name
site_name(self) ==
    IF Truthy(translate(self, "site_name")) THEN translate(self, "site_name")
    ELSE self[FieldName("site_name", Str_en)]

\* SiteSetting.localized_value
localized_value(self, field_prefix, fallback) ==
    IF Truthy(translate(self, field_prefix)) THEN translate(self, field_prefix)
    ELSE fallback

\* SiteSetting.hero_headline
hero_headline(self) == localized_value(self, "hero_headline", site_name(self))

FieldValues == {"", "Kafe", "Cafe"}

SiteSettingFields ==
    {FieldName(p, l) : p \in {"site_name", "hero_headline"}, l \in {Str_en, Str_fa}}

\* values of settings.LANGUAGE_CODE / the active language a request can carry
ActiveLanguages ==
    { <<>>, Str_en, Str_fa, <<"f", "a", "-", "i", "r">>,
      <<"e", "n", "-", "u", "s">>, <<"d", "e">> }

\* A template reads the translated values of the settings object.
ResolveTranslations ==
    /\ translated = EmptyMap
    /\ translated' =
          [ translate_site_name |-> translate(entity, "site_name"),
            translate_hero_headline |-> translate(entity, "hero_headline"),
            site_name |-> site_name(entity),
            hero_headline |-> hero_headline(entity) ]
    /\ UNCHANGED <<entity, language, settingsVars, requestVars, itemVars, homeVars,
                   pathVars>>

InitTranslate ==
    /\ SettingsStart /\ RequestsStart /\ ItemsStart /\ HomeStart /\ PathStart
    /\ entity \in [SiteSettingFields -> FieldValues]
    /\ language \in ActiveLanguages
    /\ translated = EmptyMap

NextTranslate == ResolveTranslations

SpecTranslate == InitTranslate /\ [][NextTranslate]_vars

\* The active language normalized to its primary subtag, en when none is
\* active: the longest prefix of the code without a hyphen.
PrimarySubtag ==
    IF language = <<>> THEN Str_en
    ELSE SubSeq(language, 1,
                CHOOSE k \in 0..Len(language) :
                    /\ \A i \in 1..k : language[i] # "-"
                    /\ k < Len(language) => language[k + 1] = "-")

ExpectedTranslation(field_prefix) ==
    IF /\ <<field_prefix, PrimarySubtag>> \in DOMAIN entity
       /\ entity[<<field_prefix, PrimarySubtag>>] # ""
    THEN entity[<<field_prefix, PrimarySubtag>>]
    ELSE entity[<<field_prefix, Str_en>>]

\* C8: translate(prefix) returns the value of prefix_L when that field exists
\* and is non-empty, else the value of prefix_en; hero_headline resolves
\* hero_headline_L, then hero_headline_en, then site_name; site_name is
\* non-empty whenever site_name_en is non-empty.
C8_TranslateFallback ==
    translated # EmptyMap =>
        /\ translated.translate_site_name = ExpectedTranslation("site_name")
        /\ translated.translate_hero_headline = ExpectedTranslation("hero_headline")
        /\ translated.hero_headline =
              IF ExpectedTranslation("hero_headline") # ""
              THEN ExpectedTranslation("hero_headline")
              ELSE translated.site_name
        /\ translated.site_name =
              IF ExpectedTranslation("site_name") # ""
              THEN ExpectedTranslation("site_name")
              ELSE entity[<<"site_name", Str_en>>]
        /\ entity[<<"site_name", Str_en>>] # "" => translated.site_name # ""

\* Under fa-ir, with an empty hero_headline_fa and hero_headline_en, the
\* headline falls back to the Farsi site name.
C8_Witness ==
    /\ translated # EmptyMap
    /\ language = <<"f", "a", "-", "i", "r">>
    /\ entity[<<"hero_headline", Str_fa>>] = ""
    /\ entity[<<"hero_headline", Str_en>>] = ""
    /\ entity[<<"site_name", Str_fa>>] = "Kafe"
    /\ entity[<<"site_name", Str_en>>] = "Cafe"
    /\ translated.hero_headline = "Kafe"

----------------------------------------------------------------------------
(* MenuItem: slug derivation, the unique slug, the field validators.       *)
(* A row is [name_en, slug, price, rating]; price is in hundredths          *)
(* (decimal_places=2), rating in tenths (decimal_places=1), <<>> for NULL.  *)

AsciiLetters == {"l", "a", "L", "x"}
Whitespace == {" "}
\* U+0642 is a Farsi letter: not ASCII, and without an ASCII decomposition
NonAscii == {"U+0642"}

\* unicodedata.normalize("NFKD", value).encode("ascii", "ignore")
RECURSIVE AsciiIgnore(_)
AsciiIgnore(s) ==
    IF s = <<>> THEN <<>>
    ELSE (IF Head(s) \in NonAscii THEN <<>> ELSE <<Head(s)>>) \o AsciiIgnore(Tail(s))

\* str.lower()
RECURSIVE Lower(_)
Lower(s) ==
    IF s = <<>> THEN <<>>
    ELSE <<IF Head(s) = "L" THEN "l" ELSE Head(s)>> \o Lower(Tail(s))

\* re.sub(r"[^\w\s-]", "", value)
RECURSIVE DropSymbols(_)
DropSymbols(s) ==
    IF s = <<>> THEN <<>>
    ELSE (IF Head(s) \in AsciiLetters \cup Whitespace \cup {"-", "_"}
          THEN <<Head(s)>> ELSE <<>>) \o DropSymbols(Tail(s))

\* re.sub(r"[-\s]+", "-", value)
RECURSIVE Hyphenate(_)
Hyphenate(s) ==
    IF s = <<>> THEN <<>>
    ELSE IF Head(s) \in Whitespace \cup {"-"}
         THEN <<"-">> \o Hyphenate(LStrip(s, Whitespace \cup {"-"}))
         ELSE <<Head(s)>> \o Hyphenate(Tail(s))

\* django.utils.text.slugify(value)
slugify(value) ==
    Strip(Hyphenate(DropSymbols(Lower(AsciiIgnore(value)))), {"-", "_"})

Name_La == <<"L", "a">>
Name_la == <<"l", "a", "!">>
Name_Farsi == <<"U+0642">>
Name_aL == <<" ", "a", " ", "-", "L">>

Slug_la == <<"l", "a">>
Slug_x == <<"x">>

\* MinValueValidator(Decimal("0.00")) on price
PriceValid(price) == price >= 0

\* MinValueValidator(Decimal("0.0")), MaxValueValidator(Decimal("5.0")) on
\* rating; validators do not run on an empty (NULL) value
RatingValid(rating) == rating = <<>> \/ (rating[1] >= 0 /\ rating[1] <= 50)

SlugTaken_OnInsertOnly(pk, slug) ==
    pk = 0 /\ \E other \in DOMAIN items : items[other].slug = slug

\* unique=True on slug: the unique index refuses a row whose slug another
\* row holds
SlugTaken(pk, slug) ==
    \E other \in DOMAIN items \ {pk} : items[other].slug = slug

EffectiveSlug_Always(slug, name_en) == slugify(name_en)

\* MenuItem.save lines 205-206
EffectiveSlug(slug, name_en) ==
    IF slug = <<>> THEN slugify(name_en) ELSE slug

\* the primary key an INSERT assigns
NewPk == Min((1..MaxItems) \ DOMAIN items)

\* MenuItem.save of an instance with the given field values; pk 0 is an
\* instance that was never saved.  Model validators are not run by save().
MenuItemSave(pk, name_en, slug, price, rating) ==
    LET new_slug == EffectiveSlug(slug, name_en)
        row == [name_en |-> name_en, slug |-> new_slug, price |-> price,
                rating |-> rating]
    IN  /\ pk = 0 => DOMAIN items # 1..MaxItems
        /\ pk # 0 => pk \in DOMAIN items
        /\ IF SlugTaken(pk, new_slug)
           THEN /\ outcome' = "IntegrityError"
                /\ items' = items
           ELSE /\ outcome' = "saved"
                /\ items' = MapPut(items, IF pk = 0 THEN NewPk ELSE pk, row)
        /\ UNCHANGED <<settingsVars, requestVars, homeVars, translateVars, pathVars>>

\* The admin's add / change view of MenuItemAdmin: the model form runs the
\* field validators and the unique check on the submitted values, and calls
\* save() only for a valid form.
AdminItemSave(pk, name_en, slug, price, rating) ==
    IF PriceValid(price) /\ RatingValid(rating) /\ ~SlugTaken(pk, slug)
    THEN MenuItemSave(pk, name_en, slug, price, rating)
    ELSE /\ pk # 0 => pk \in DOMAIN items
         /\ outcome' = "ValidationError"
         /\ items' = items
         /\ UNCHANGED <<settingsVars, requestVars, homeVars, translateVars, pathVars>>

\* Model.delete of a MenuItem
MenuItemDelete(pk) ==
    /\ pk \in DOMAIN items
    /\ items' = MapRemove(items, pk)
    /\ outcome' = "deleted"
    /\ UNCHANGED <<settingsVars, requestVars, homeVars, translateVars, pathVars>>

InitItems ==
    /\ SettingsStart /\ RequestsStart /\ ItemsStart
    /\ HomeStart /\ TranslateStart /\ PathStart

ItemNames == {Name_La, Name_la, Name_Farsi, Name_aL}

\* what the operator can leave in the slug field of an instance: blank, a
\* slug typed in, or (for a stored item) the slug it already has
SlugInputs(pk) ==
    {<<>>, Slug_x} \cup (IF pk \in DOMAIN items THEN {items[pk].slug} ELSE {})

ItemPks == {0} \cup DOMAIN items

\* Saves that vary name and slug, at a valid price and rating.
NextSlugs ==
    \/ \E pk \in ItemPks, n \in ItemNames : \E s \in SlugInputs(pk) :
            MenuItemSave(pk, n, s, 1250, <<50>>)
    \/ \E pk \in ItemPks, n \in ItemNames : \E s \in SlugInputs(pk) :
            AdminItemSave(pk, n, s, 1250, <<50>>)
    \/ \E pk \in DOMAIN items : MenuItemDelete(pk)

SpecSlugs == InitItems /\ [][NextSlugs]_vars

Prices == {-100, -1, 0, 1250}
Ratings == {<<>>, <<-1>>, <<0>>, <<50>>, <<51>>}

\* Saves that vary price and rating, the slug derived from the name.
NextPrices ==
    \/ \E pk \in ItemPks, n \in {Name_La, Name_aL}, p \in Prices, r \in Ratings :
            MenuItemSave(pk, n, <<>>, p, r)
    \/ \E pk \in ItemPks, n \in {Name_La, Name_aL}, p \in Prices, r \in Ratings :
            AdminItemSave(pk, n, <<>>, p, r)
    \/ \E pk \in DOMAIN items : MenuItemDelete(pk)

SpecPrices == InitItems /\ [][NextPrices]_vars

\* C5: a MenuItem.save (create or update) whose price is below 0.00 or whose
\* rating is outside [0.0, 5.0] fails with a validation error and leaves the
\* stored records unchanged; rating 5.0 or 0.0 and price 0.00 are accepted.
C5_InvalidSaveRejected ==
    [][\A pk \in ItemPks, n \in {Name_La, Name_aL}, p \in Prices, r \in Ratings :
          MenuItemSave(pk, n, <<>>, p, r) =>
              IF p >= 0 /\ (r = <<>> \/ (r[1] >= 0 /\ r[1] <= 50))
              THEN outcome' # "ValidationError"
              ELSE outcome' = "ValidationError" /\ items' = items]_vars

NoTwoItemsShareSlug ==
    \A a, b \in DOMAIN items : a # b => items[a].slug # items[b].slug

\* C6: no two stored MenuItems share a slug; a save whose slug, given
\* explicitly or derived from name_en, equals the slug of another stored
\* item fails with an error and leaves the stored records unchanged.
C6_UniqueSlug ==
    /\ []NoTwoItemsShareSlug
    /\ [][\A pk \in ItemPks, n \in ItemNames : \A s \in SlugInputs(pk) :
            ( /\ MenuItemSave(pk, n, s, 1250, <<50>>)
              /\ \E other \in DOMAIN items \ {pk} :
                    items[other].slug = IF s = <<>> THEN slugify(n) ELSE s )
            => (outcome' = "IntegrityError" /\ items' = items)]_vars

\* The item named La is stored with the derived slug la, and the save of a
\* second item deriving the same slug has just failed.
C6_Witness ==
    /\ outcome = "IntegrityError"
    /\ Cardinality(DOMAIN items) = 1
    /\ \E pk \in DOMAIN items :
          items[pk].name_en = Name_La /\ items[pk].slug = Slug_la

\* C7 as stated: the slug is computed from name_en once, at the first save
\* and only if blank then; no later save changes it unless the operator
\* edits it; an explicitly set slug is never overwritten.
C7_SlugComputedOnce ==
    [][\A pk \in ItemPks, n \in ItemNames : \A s \in SlugInputs(pk) :
          (MenuItemSave(pk, n, s, 1250, <<50>>) /\ outcome' = "saved") =>
              LET target == IF pk = 0 THEN NewPk ELSE pk
              IN  /\ (pk = 0 /\ s = <<>>) => items'[target].slug = slugify(n)
                  /\ (pk # 0 /\ s = items[pk].slug) =>
                         items'[target].slug = items[pk].slug
                  /\ s # <<>> => items'[target].slug = s]_vars

\* C7 amended: the slug is computed from name_en at every save at which it
\* is blank (the first save, or a later one when the stored slug is still
\* blank or was cleared); a save never changes a non-blank slug the operator
\* left alone, and an explicitly set slug is never overwritten.
C7_SlugComputedWhenBlank ==
    [][\A pk \in ItemPks, n \in ItemNames : \A s \in SlugInputs(pk) :
          (MenuItemSave(pk, n, s, 1250, <<50>>) /\ outcome' = "saved") =>
              LET target == IF pk = 0 THEN NewPk ELSE pk
              IN  /\ s = <<>> => items'[target].slug = slugify(n)
                  /\ (pk # 0 /\ s = items[pk].slug /\ s # <<>>) =>
                         items'[target].slug = items[pk].slug
                  /\ s # <<>> => items'[target].slug = s]_vars

\* An item first saved as La got the slug la and kept it when a later save
\* renamed it.
C7_Witness ==
    /\ outcome = "saved"
    /\ \E pk \in DOMAIN items :
          items[pk].name_en = Name_Farsi /\ items[pk].slug = Slug_la

----------------------------------------------------------------------------
(* HomePageView.get_context_data.  A MenuCategory row is                    *)
(* [display_order, is_active]; a MenuItem row is [category, name_en,        *)
(* is_signature, is_available].  The context holds model instances, kept    *)
(* here by primary key.                                                     *)

\* code points of the characters item names are made of
Ord(c) == IF c = "a" THEN 97 ELSE 98

\* s < t for strings, as ORDER BY name_en ASC compares them
RECURSIVE StrLess(_, _)
StrLess(s, t) ==
    IF t = <<>> THEN FALSE
    ELSE IF s = <<>> THEN TRUE
    ELSE IF Head(s) # Head(t) THEN Ord(Head(s)) < Ord(Head(t))
    ELSE StrLess(Tail(s), Tail(t))

\* Rows with equal sort keys come in the order the database scans them,
\* which a query does not fix: by ascending or by descending primary key.
ScanBefore(scan, a, b) == IF scan = "asc" THEN a < b ELSE a > b

\* .order_by("display_order")
CategoryBefore(scan, a, b) ==
    \/ categories[a].display_order < categories[b].display_order
    \/ /\ categories[a].display_order = categories[b].display_order
       /\ ScanBefore(scan, a, b)

\* .order_by("-is_signature", "name_en")
ItemBefore(scan, a, b) ==
    \/ menu_items[a].is_signature /\ ~menu_items[b].is_signature
    \/ /\ menu_items[a].is_signature = menu_items[b].is_signature
       /\ \/ StrLess(menu_items[a].name_en, menu_items[b].name_en)
          \/ /\ menu_items[a].name_en = menu_items[b].name_en
             /\ ScanBefore(scan, a, b)

\* MenuCategory.objects.filter(is_active=True).order_by("display_order")
ActiveCategories(scan) ==
    LET S == {c \in DOMAIN categories : categories[c].is_active}
    IN  [i \in 1..Cardinality(S) |->
            CHOOSE c \in S :
                Cardinality({d \in S : CategoryBefore(scan, d, c)}) = i - 1]

PrefetchedItems_Unfiltered(scan, c) ==
    LET S == {m \in DOMAIN menu_items : menu_items[m].category = c}
    IN  [i \in 1..Cardinality(S) |->
            CHOOSE m \in S :
                Cardinality({k \in S : ItemBefore(scan, k, m)}) = i - 1]

\* Prefetch("items", MenuItem.objects.filter(is_available=True)
\*     .order_by("-is_signature", "name_en")) for category c
PrefetchedItems(scan, c) ==
    LET S == {m \in DOMAIN menu_items :
                 menu_items[m].category = c /\ menu_items[m].is_available}
    IN  [i \in 1..Cardinality(S) |->
            CHOOSE m \in S :
                Cardinality({k \in S : ItemBefore(scan, k, m)}) = i - 1]

\* for category in categories for item in category.items.all()
\*     if item.is_signature
RECURSIVE SignatureGenerator(_)
SignatureGenerator(cats) ==
    IF cats = <<>> THEN <<>>
    ELSE SelectSeq(Head(cats).items, LAMBDA m : menu_items[m].is_signature)
             \o SignatureGenerator(Tail(cats))

islice_Unbounded(seq, n) == seq

\* itertools.islice(iterable, n)
islice(seq, n) == SubSeq(seq, 1, IF Len(seq) < n THEN Len(seq) ELSE n)

\* the islice bound of views.py line 42
SignatureLimit == 4

\* settings.LANGUAGE_CODE
LANGUAGE_CODE == Str_en

\* language_selected of views.py lines 45-51, for a request with the given
\* language cookie and LANGUAGE_CODE attribute (<<>> for None)
language_selected(language_cookie, current_language) ==
    LET default_lang == Split1(LANGUAGE_CODE, "-")[1]
    IN  \/ language_cookie # <<>>
        \/ /\ current_language # <<>>
           /\ Split1(current_language, "-")[1] # default_lang

\* HomePageView.get_context_data; the request of this specification carries
\* no language cookie and the active language of the variable language.
get_context_data(scan) ==
    LET active == ActiveCategories(scan)
        cats == [i \in DOMAIN active |->
                    [pk |-> active[i], items |-> PrefetchedItems(scan, active[i])]]
    IN  /\ context.rendered = FALSE
        /\ context' = [rendered |-> TRUE,
                       categories |-> cats,
                       signature_items |->
                           islice(SignatureGenerator(cats), SignatureLimit),
                       language_selected |-> language_selected(<<>>, language)]
        /\ UNCHANGED <<categories, menu_items, settingsVars, requestVars, itemVars,
                       translateVars, pathVars>>

DisplayOrders == {0, 1}

\* name_en of the item rows: not in primary key order, and with repeats
HomeItemNames == << <<"b">>, <<"a">>, <<"a", "b">> >>

HomeItemName(pk) == HomeItemNames[(pk % 3) + 1]

\* category of the item rows: the items are dealt out over the categories
HomeItemCategory(pk) == (pk % NumCategories) + 1

InitHome ==
    /\ SettingsStart /\ RequestsStart /\ ItemsStart /\ TranslateStart /\ PathStart
    /\ categories \in [1..NumCategories ->
                          [display_order : DisplayOrders, is_active : BOOLEAN]]
    /\ \E rows \in [1..NumMenuItems ->
                        [is_signature : BOOLEAN, is_available : BOOLEAN]] :
          menu_items = [pk \in 1..NumMenuItems |->
                           [category |-> HomeItemCategory(pk),
                            name_en |-> HomeItemName(pk),
                            is_signature |-> rows[pk].is_signature,
                            is_available |-> rows[pk].is_available]]
    /\ context = [rendered |-> FALSE, categories |-> <<>>, signature_items |-> <<>>,
                  language_selected |-> FALSE]

NextHome == \E scan \in {"asc", "desc"} : get_context_data(scan)

SpecHome == InitHome /\ [][NextHome]_vars

ActiveCategoryPks == {c \in DOMAIN categories : categories[c].is_active}

AvailableItemPks(c) ==
    {m \in DOMAIN menu_items :
        menu_items[m].category = c /\ menu_items[m].is_available}

\* C3: the context's categories are exactly the active categories in
\* ascending display_order; each lists exactly its own available items,
\* signature items first and then by name_en ascending; no item of an
\* inactive category and no unavailable item appears in the context.
C3_HomeCategories ==
    context.rendered =>
        LET cs == context.categories
        IN  /\ {cs[i].pk : i \in DOMAIN cs} = ActiveCategoryPks
            /\ Len(cs) = Cardinality(ActiveCategoryPks)
            /\ \A i, j \in DOMAIN cs :
                   i < j => categories[cs[i].pk].display_order
                                <= categories[cs[j].pk].display_order
            /\ \A i \in DOMAIN cs :
                   LET its == cs[i].items
                   IN  /\ {its[k] : k \in DOMAIN its} = AvailableItemPks(cs[i].pk)
                       /\ Len(its) = Cardinality(AvailableItemPks(cs[i].pk))
                       /\ \A a, b \in DOMAIN its :
                              a < b =>
                                /\ menu_items[its[b]].is_signature
                                       => menu_items[its[a]].is_signature
                                /\ (menu_items[its[a]].is_signature
                                       = menu_items[its[b]].is_signature)
                                     => ~StrLess(menu_items[its[b]].name_en,
                                                 menu_items[its[a]].name_en)
            /\ \A k \in DOMAIN context.signature_items :
                   LET m == context.signature_items[k]
                   IN  /\ menu_items[m].is_available
                       /\ categories[menu_items[m].category].is_active

\* An inactive category holding an available item, an unavailable item in
\* an active category, and a category list where a signature item precedes
\* a plain item of smaller name.
C3_Witness ==
    /\ context.rendered
    /\ \E m \in DOMAIN menu_items :
          menu_items[m].is_available /\ ~categories[menu_items[m].category].is_active
    /\ \E m \in DOMAIN menu_items :
          ~menu_items[m].is_available /\ categories[menu_items[m].category].is_active
    /\ \E i \in DOMAIN context.categories :
          LET its == context.categories[i].items
          IN  /\ Len(its) >= 2
              /\ menu_items[its[1]].is_signature
              /\ ~menu_items[its[2]].is_signature
              /\ StrLess(menu_items[its[2]].name_en, menu_items[its[1]].name_en)

\* the available signature items of active categories
SignatureCandidates ==
    {m \in DOMAIN menu_items :
        /\ menu_items[m].is_signature
        /\ menu_items[m].is_available
        /\ categories[menu_items[m].category].is_active}

\* position of an item in the returned categories: <<category index, item index>>
ContextPosition(m) ==
    CHOOSE p \in {<<i, k>> : i \in DOMAIN context.categories,
                              k \in 1..NumMenuItems} :
        /\ p[2] \in DOMAIN context.categories[p[1]].items
        /\ context.categories[p[1]].items[p[2]] = m

InContext(m) ==
    \E i \in DOMAIN context.categories :
        \E k \in DOMAIN context.categories[i].items :
            context.categories[i].items[k] = m

PositionBefore(m1, m2) ==
    \/ ContextPosition(m1)[1] < ContextPosition(m2)[1]
    \/ /\ ContextPosition(m1)[1] = ContextPosition(m2)[1]
       /\ ContextPosition(m1)[2] < ContextPosition(m2)[2]

\* C4: signature_items is the first min(4, n) of the n available signature
\* items of active categories, taken in category order then item order; it
\* never has more than 4 elements and each element is in the item list of a
\* returned category.
C4_SignatureItems ==
    context.rendered =>
        LET sig == context.signature_items
            n == Cardinality(SignatureCandidates)
        IN  /\ Len(sig) = IF n < 4 THEN n ELSE 4
            /\ \A k \in DOMAIN sig : sig[k] \in SignatureCandidates /\ InContext(sig[k])
            /\ \A k, l \in DOMAIN sig : k < l => PositionBefore(sig[k], sig[l])
            /\ \A k \in DOMAIN sig : \A m \in SignatureCandidates :
                   PositionBefore(m, sig[k]) => \E l \in DOMAIN sig : sig[l] = m

\* Five available signature items in two active categories: four are
\* returned, from both categories.
C4_Witness ==
    /\ context.rendered
    /\ Cardinality(SignatureCandidates) = 5
    /\ Len(context.signature_items) = 4
    /\ \E k, l \in DOMAIN context.signature_items :
          menu_items[context.signature_items[k]].category
              # menu_items[context.signature_items[l]].category

====
